---- MODULE Spec2Model ----
(***************************************************************************)
(* Price-analytics engine of the CS2 trading bot (cs2_trading_bot.py):     *)
(* the per-item price history kept by PriceAnalyzer, the derived signals   *)
(* (trend, profit potential, forecast) and the handlers and jobs that      *)
(* feed quotes into the history and read the signals back.                *)
(*                                                                         *)
(* Time is counted in days.  A price is an integer; Inf stands for the     *)
(* float infinity that float() returns for the text "inf" and that float   *)
(* arithmetic returns on overflow.  A quote text is a sequence of          *)
(* one-character strings.                                                  *)
(***************************************************************************)
EXTENDS Integers, Sequences, FiniteSets, TLC

VARIABLES
    price_history,  \* PriceAnalyzer.price_history: item name -> list of points
    now,            \* the wall clock read by datetime.now(), in days
    handler,        \* the update handler in progress and the quote it awaits
    monitor,        \* position of the monitor_prices job in its item loop
    completed,      \* per item: add_price_point calls completed while nothing can expire
    out,            \* what the last completed step returned or reported
    user_data       \* user_data: user id -> the user's mode and portfolio

vars == <<price_history, now, handler, monitor, completed, out, user_data>>

----------------------------------------------------------------------------
(* Bounds of the model *)

MaxTime == 45       \* the clock stops advancing here
TickStep == 15      \* the clock advances by TickStep or by Retention days
MaxPoints == 3      \* longest series the handlers build
MaxTrendLen == 8    \* longest series of the trend specification
MaxLen == 10        \* longest series of the totality specification
MaxPotentialLen == 15 \* longest series of the potential specification
MaxPredictLen == 31 \* longest series of the prediction specification
MaxFree == 4        \* points after which a series of the prediction specification keeps its step

(* Program constants *)

Retention == 30         \* timedelta(days=30)
TrendMinPoints_two == 3 - 1 \* variant: two points are enough
TrendMinPoints == 3     \* len(...) < 3
TrendWindow_eight == 7 + 1 \* variant: a window of eight points
TrendWindow == 7        \* [-7:]
PotentialMinPoints_four == 5 - 1 \* variant: four points are enough
PotentialMinPoints == 5 \* len(...) < 5
PotentialWindow_fifteen == 14 + 1 \* variant: a window of fifteen points
PotentialWindow == 14   \* [-14:]
PredictMinPoints_nine == 10 - 1 \* variant: nine points are enough
PredictMinPoints == 10  \* len(...) < 10
PredictWindow == 30     \* [-30:]
DefaultPotential == 50  \* return 50
TopSlice == 8           \* POPULAR_ITEMS[:8]
MonitorSlice == 5       \* POPULAR_ITEMS[:5]
DefaultDays == 7        \* predict_price(item, 7)
Inf == 1000000          \* float('inf'): above every finite price of the model

POPULAR_ITEMS == << "AK-47 | Redline (Field-Tested)", "AWP | Asiimov (Field-Tested)" >>

ItemNames == { POPULAR_ITEMS[k] : k \in DOMAIN POPULAR_ITEMS }

----------------------------------------------------------------------------
(* Helpers on sequences and numbers *)

Min2(a, b) == IF a < b THEN a ELSE b

Max2(a, b) == IF a > b THEN a ELSE b

Abs(a) == IF a < 0 THEN -a ELSE a

\* Python's s[-n:]
LastN(s, n) == SubSeq(s, Max2(1, Len(s) - n + 1), Len(s))

\* Python's s[:n]
FirstN(s, n) == SubSeq(s, 1, Min2(n, Len(s)))

PricesOf(series) == [k \in 1..Len(series) |-> series[k].price]

SeqMin(s) == CHOOSE m \in { s[k] : k \in 1..Len(s) } : \A k \in 1..Len(s) : m <= s[k]

SeqMax(s) == CHOOSE m \in { s[k] : k \in 1..Len(s) } : \A k \in 1..Len(s) : m >= s[k]

RECURSIVE SeqSum(_)
SeqSum(s) == IF s = <<>> THEN 0 ELSE s[1] + SeqSum(Tail(s))

\* int(): truncation of the rational num/den towards zero, den # 0
TruncDiv(num, den) ==
    LET n == Abs(num)
        d == Abs(den)
        q == n \div d
    IN IF (num < 0) = (den < 0) THEN q ELSE -q

Sign(a) == IF a < 0 THEN -1 ELSE IF a > 0 THEN 1 ELSE 0

----------------------------------------------------------------------------
(* Quote texts and their conversion to a price *)

Digits == <<"0", "1", "2", "3", "4", "5", "6", "7", "8", "9">>

IsDigit(c) == \E d \in 1..10 : Digits[d] = c

DigitValue(c) == (CHOOSE d \in 1..10 : Digits[d] = c) - 1

\* str.replace(c, ''): every occurrence of the character is removed
RECURSIVE RemoveChar(_, _)
RemoveChar(s, c) ==
    IF s = <<>> THEN <<>>
    ELSE IF s[1] = c THEN RemoveChar(Tail(s), c)
    ELSE <<s[1]>> \o RemoveChar(Tail(s), c)

RECURSIVE DigitsValue(_, _)
DigitsValue(s, acc) ==
    IF s = <<>> THEN acc ELSE DigitsValue(Tail(s), 10 * acc + DigitValue(s[1]))

AllDigits(s) == s # <<>> /\ \A k \in 1..Len(s) : IsDigit(s[k])

\* float(text): an optionally signed run of digits, or "inf"; anything else
\* raises ValueError (ok = FALSE)
ParseFloat(s) ==
    IF s = <<"i", "n", "f">> THEN [ok |-> TRUE, value |-> Inf]
    ELSE IF AllDigits(s) THEN [ok |-> TRUE, value |-> DigitsValue(s, 0)]
    ELSE IF s # <<>> /\ s[1] = "-" /\ AllDigits(Tail(s))
         THEN [ok |-> TRUE, value |-> -DigitsValue(Tail(s), 0)]
    ELSE [ok |-> FALSE, value |-> 0]

\* float(price.replace('$', '').replace(',', ''))
ParsePrice(s) == ParseFloat(RemoveChar(RemoveChar(s, "$"), ","))

\* int(text): an optionally signed run of digits; anything else raises
\* ValueError (ok = FALSE)
ParseInt(s) ==
    IF AllDigits(s) THEN [ok |-> TRUE, value |-> DigitsValue(s, 0)]
    ELSE IF s # <<>> /\ s[1] = "-" /\ AllDigits(Tail(s))
         THEN [ok |-> TRUE, value |-> -DigitsValue(Tail(s), 0)]
    ELSE [ok |-> FALSE, value |-> 0]

\* variant: the commas are kept
ParseVolume_keeping_commas(s) == ParseInt(s)

\* int(str(volume).replace(',', ''))
ParseVolume(s) == ParseInt(RemoveChar(s, ","))

NoQuote == [ok |-> FALSE, median_price |-> <<>>, volume |-> <<>>]

Quote(s, v) == [ok |-> TRUE, median_price |-> s, volume |-> v]

\* the median prices and volumes the market feed answers with in the model
QuoteTexts == { <<"$", "1", "0">>, <<"N", "/", "A">> }

VolumeTexts == { <<"1", ",", "2", "3", "4">>, <<"N", "/", "A">> }

\* what get_item_price returns: None, or a quote
Quotes == {NoQuote} \cup { Quote(s, v) : s \in QuoteTexts, v \in VolumeTexts }

\* the same for the callers that never read the volume
PriceQuotes == {NoQuote} \cup { Quote(s, <<"N", "/", "A">>) : s \in QuoteTexts }

----------------------------------------------------------------------------
(* PriceAnalyzer *)

Point(price, t) == [price |-> price, timestamp |-> t]

\* variant: the window is twice as long
cutoff_doubled(t) == t - 2 * Retention

\* datetime.now() - timedelta(days=30)
cutoff(t) == t - Retention

\* variant: a point exactly at the cutoff is kept
KeepsPoint_inclusive(p, c) == p.timestamp >= c

\* p['timestamp'] > cutoff
KeepsPoint(p, c) == p.timestamp > c

\* variant: the filtered list is not stored back
Purge_skipped(series, c) == series

\* the list comprehension that replaces the item's series
Purge(series, c) == SelectSeq(series, LAMBDA p : KeepsPoint(p, c))

\* variant: the purge runs over every item of the map
add_price_point_purging_all(ph, item_name, price, t) ==
    LET created == IF item_name \in DOMAIN ph THEN ph ELSE ph @@ (item_name :> <<>>)
        appended == [created EXCEPT ![item_name] = Append(@, Point(price, t))]
    IN [i \in DOMAIN appended |-> Purge(appended[i], cutoff(t))]

\* variant: a method that reads the history creates the missing key
read_history_setdefault(ph, item_name) ==
    IF item_name \in DOMAIN ph THEN ph ELSE ph @@ (item_name :> <<>>)

\* the history after a reading method: `item_name not in self.price_history`
\* and self.price_history[item_name] read the map and store nothing
\* variant: reading an item purges its expired points
read_history_purging(ph, item_name) ==
    IF item_name \in DOMAIN ph
    THEN [ph EXCEPT ![item_name] = Purge(@, cutoff(now))]
    ELSE ph

read_history(ph, item_name) == ph

add_price_point(ph, item_name, price, t) ==
    LET created == IF item_name \in DOMAIN ph THEN ph ELSE ph @@ (item_name :> <<>>)
        appended == [created EXCEPT ![item_name] = Append(@, Point(price, t))]
    IN [appended EXCEPT ![item_name] = Purge(@, cutoff(t))]

Series(ph, item_name) == IF item_name \in DOMAIN ph THEN ph[item_name] ELSE <<>>

InsufficientData == "InsufficientData"
StableGrowth == "StableGrowth"
Decline == "Decline"
StrongGrowth == "StrongGrowth"
StrongDecline == "StrongDecline"
Stable == "Stable"

TrendLabels == {InsufficientData, StableGrowth, Decline, StrongGrowth, StrongDecline, Stable}

\* variant: the 10% thresholds are tested before the monotonic runs
Classify_thresholds_first(prices) ==
    IF 10 * prices[Len(prices)] > 11 * prices[1] THEN StrongGrowth
    ELSE IF 10 * prices[Len(prices)] < 9 * prices[1] THEN StrongDecline
    ELSE IF \A k \in 1..(Len(prices) - 1) : prices[k] < prices[k + 1] THEN StableGrowth
    ELSE IF \A k \in 1..(Len(prices) - 1) : prices[k] > prices[k + 1] THEN Decline
    ELSE Stable

\* variant: the 10% thresholds are inclusive
Classify_inclusive(prices) ==
    IF \A k \in 1..(Len(prices) - 1) : prices[k] < prices[k + 1] THEN StableGrowth
    ELSE IF \A k \in 1..(Len(prices) - 1) : prices[k] > prices[k + 1] THEN Decline
    ELSE IF 10 * prices[Len(prices)] >= 11 * prices[1] THEN StrongGrowth
    ELSE IF 10 * prices[Len(prices)] <= 9 * prices[1] THEN StrongDecline
    ELSE Stable

\* the if/elif chain of detect_trend; x * 1.1 and x * 0.9 are compared exactly
Classify(prices) ==
    IF \A k \in 1..(Len(prices) - 1) : prices[k] < prices[k + 1] THEN StableGrowth
    ELSE IF \A k \in 1..(Len(prices) - 1) : prices[k] > prices[k + 1] THEN Decline
    ELSE IF 10 * prices[Len(prices)] > 11 * prices[1] THEN StrongGrowth
    ELSE IF 10 * prices[Len(prices)] < 9 * prices[1] THEN StrongDecline
    ELSE Stable

\* variant: the whole series is classified
detect_trend_whole(ph, item_name) ==
    IF item_name \notin DOMAIN ph \/ Len(ph[item_name]) < TrendMinPoints
    THEN InsufficientData
    ELSE Classify(PricesOf(ph[item_name]))

detect_trend(ph, item_name) ==
    IF item_name \notin DOMAIN ph \/ Len(ph[item_name]) < TrendMinPoints
    THEN InsufficientData
    ELSE LET prices == PricesOf(LastN(ph[item_name], TrendWindow))
         IN IF Len(prices) < 2 THEN InsufficientData ELSE Classify(prices)

Returned(v) == [raised |-> FALSE, error |-> "", value |-> v]

Raised(e) == [raised |-> TRUE, error |-> e, value |-> 0]

\* max(0, min(100, int(num/den)))
ClampedInt(num, den) == Max2(0, Min2(100, TruncDiv(num, den)))

\* the try block of calculate_profit_potential over the window's prices.
\* With finite prices 50 + trend*2 + volatility*0.5 is the rational
\*   (50*first*min + 200*(last-first)*min + 50*(max-min)*first) / (first*min).
\* With an infinite price the float result is nan (int() raises ValueError,
\* caught: 50) or an infinity (int() raises OverflowError, not caught).
PotentialOf(prices) ==
    LET min_price == SeqMin(prices)
        max_price == SeqMax(prices)
        first == prices[1]
        last == prices[Len(prices)]
    IN IF min_price = 0 THEN Returned(DefaultPotential)
       ELSE IF max_price = Inf
       THEN IF min_price = Inf THEN Returned(DefaultPotential)
            ELSE IF first = 0 THEN Returned(DefaultPotential)
            ELSE IF first = Inf THEN Returned(DefaultPotential)
            ELSE IF last = Inf /\ Sign(first) # Sign(min_price)
                 THEN Returned(DefaultPotential)
            ELSE Raised("OverflowError")
       ELSE IF first = 0 THEN Returned(DefaultPotential)
       ELSE Returned(ClampedInt(50 * first * min_price
                                  + 200 * (last - first) * min_price
                                  + 50 * (max_price - min_price) * first,
                                first * min_price))

\* variant: the division by a zero first price is not caught
calculate_profit_potential_dividing(ph, item_name) ==
    IF item_name \notin DOMAIN ph \/ Len(ph[item_name]) < PotentialMinPoints
    THEN Returned(DefaultPotential)
    ELSE LET prices == PricesOf(LastN(ph[item_name], PotentialWindow))
         IN IF prices[1] = 0 /\ SeqMin(prices) # 0
            THEN Raised("ZeroDivisionError")
            ELSE PotentialOf(prices)

calculate_profit_potential(ph, item_name) ==
    IF item_name \notin DOMAIN ph \/ Len(ph[item_name]) < PotentialMinPoints
    THEN Returned(DefaultPotential)
    ELSE PotentialOf(PricesOf(LastN(ph[item_name], PotentialWindow)))

Prediction(direction, confidence) ==
    [raised |-> FALSE, prediction |-> direction, confidence |-> confidence]

\* 2n * numerator, with x_mean = n / 2 and y_mean = sum / n
SlopeNum(prices) ==
    LET n == Len(prices)
        total == SeqSum(prices)
        RECURSIVE Acc(_)
        Acc(i) == IF i = n THEN 0
                  ELSE (2 * i - n) * (n * prices[i + 1] - total) + Acc(i + 1)
    IN Acc(0)

\* 4 * denominator
SlopeDen(prices) ==
    LET n == Len(prices)
        RECURSIVE Acc(_)
        Acc(i) == IF i = n THEN 0 ELSE (2 * i - n) * (2 * i - n) + Acc(i + 1)
    IN Acc(0)

\* variant: the confidence is capped at 100
PredictOf_uncapped(prices, days) ==
    LET n == Len(prices)
        den == SlopeDen(prices)
        num == IF den = 0 THEN 0 ELSE SlopeNum(prices)
        current_price == prices[n]
        cpn == 200 * num * days
        cpd == IF den = 0 THEN current_price ELSE n * den * current_price
        above == IF cpd > 0 THEN cpn > 5 * cpd ELSE cpn < 5 * cpd
        below == IF cpd > 0 THEN cpn < -5 * cpd ELSE cpn > -5 * cpd
        confidence == Min2(100, 60 + (Abs(cpn) \div Abs(cpd)))
    IN IF current_price = 0 THEN Prediction("neutral", 0)
       ELSE IF \E k \in 1..n : prices[k] = Inf THEN Prediction("neutral", 70)
       ELSE IF above THEN Prediction("bullish", confidence)
       ELSE IF below THEN Prediction("bearish", confidence)
       ELSE Prediction("neutral", 70)

\* variant: the thresholds of change_percent are inclusive
PredictOf_inclusive(prices, days) ==
    LET n == Len(prices)
        den == SlopeDen(prices)
        num == IF den = 0 THEN 0 ELSE SlopeNum(prices)
        current_price == prices[n]
        cpn == 200 * num * days
        cpd == IF den = 0 THEN current_price ELSE n * den * current_price
        above == IF cpd > 0 THEN cpn >= 5 * cpd ELSE cpn <= 5 * cpd
        below == IF cpd > 0 THEN cpn <= -5 * cpd ELSE cpn >= -5 * cpd
        confidence == Min2(85, 60 + (Abs(cpn) \div Abs(cpd)))
    IN IF current_price = 0 THEN Prediction("neutral", 0)
       ELSE IF \E k \in 1..n : prices[k] = Inf THEN Prediction("neutral", 70)
       ELSE IF above THEN Prediction("bullish", confidence)
       ELSE IF below THEN Prediction("bearish", confidence)
       ELSE Prediction("neutral", 70)

\* the try block of predict_price over the window's prices.  With finite
\* prices change_percent is the rational cpn / cpd below; with an infinite
\* price y_mean is infinite, the numerator is nan and every comparison of
\* change_percent is false.
PredictOf(prices, days) ==
    LET n == Len(prices)
        den == SlopeDen(prices)
        num == IF den = 0 THEN 0 ELSE SlopeNum(prices)
        current_price == prices[n]
        cpn == 200 * num * days
        cpd == IF den = 0 THEN current_price ELSE n * den * current_price
        above == IF cpd > 0 THEN cpn > 5 * cpd ELSE cpn < 5 * cpd
        below == IF cpd > 0 THEN cpn < -5 * cpd ELSE cpn > -5 * cpd
        confidence == Min2(85, 60 + (Abs(cpn) \div Abs(cpd)))
    IN IF current_price = 0 THEN Prediction("neutral", 0)
       ELSE IF \E k \in 1..n : prices[k] = Inf THEN Prediction("neutral", 70)
       ELSE IF above THEN Prediction("bullish", confidence)
       ELSE IF below THEN Prediction("bearish", confidence)
       ELSE Prediction("neutral", 70)

\* variant: a zero last price is read as no change
predict_price_unguarded(ph, item_name, days) ==
    IF item_name \notin DOMAIN ph \/ Len(ph[item_name]) < PredictMinPoints
    THEN Prediction("neutral", 0)
    ELSE LET prices == PricesOf(LastN(ph[item_name], PredictWindow))
         IN IF prices[Len(prices)] = 0 THEN Prediction("neutral", 70)
            ELSE PredictOf(prices, days)

predict_price(ph, item_name, days) ==
    IF item_name \notin DOMAIN ph \/ Len(ph[item_name]) < PredictMinPoints
    THEN Prediction("neutral", 0)
    ELSE PredictOf(PricesOf(LastN(ph[item_name], PredictWindow)), days)

----------------------------------------------------------------------------
(* InvestmentAdvisor *)

Modes == {"investor", "trader", "news"}

\* variant: every label computed from a window counts as growth
IsGrowth_any(trend) == trend \in TrendLabels \ {InsufficientData}

\* 'рост' in trend.lower(): the two growth labels contain the word
IsGrowth(trend) == trend \in {StableGrowth, StrongGrowth}

\* 'падение' in trend.lower(): the two decline labels contain the word
IsDecline(trend) == trend \in {Decline, StrongDecline}

\* price_data.get('volume', '0')
VolumeOf(price_data) ==
    IF "volume" \in DOMAIN price_data THEN price_data.volume ELSE <<"0">>

\* variants of analyze_item: the liquidity rule adds `bonus(volume)`, the
\* rating is clamped or not, the thresholds are strict or inclusive
analyze_item_variant(price_data, trend, potential, mode, bonus(_), clamped, strict) ==
    LET growth == IsGrowth(trend)
        volume == ParseVolume(VolumeOf(price_data))
        liquid == volume.ok /\ volume.value > 100
        high == potential > 70
        decline == IsDecline(trend)
        sum == 50 + (IF growth THEN 15 ELSE 0)
                  + (IF liquid THEN bonus(volume.value) ELSE 0)
                  + (IF high THEN 10 ELSE 0)
                  - (IF decline THEN 15 ELSE 0)
        rating == IF clamped THEN Max2(0, Min2(100, sum)) ELSE sum
        Above(t) == IF strict THEN rating > t ELSE rating >= t
    IN [rating |-> rating,
        recommendation |->
            IF mode = "investor"
            THEN IF Above(70) THEN "Buy"
                 ELSE IF Above(50) THEN "Watch"
                 ELSE "Avoid"
            ELSE IF Above(60) THEN "Buy"
                 ELSE IF Above(45) THEN "ConditionalBuy"
                 ELSE "Skip",
        pros |-> (IF growth THEN <<"trend">> ELSE <<>>)
                 \o (IF liquid THEN <<"liquidity">> ELSE <<>>)
                 \o (IF high THEN <<"potential">> ELSE <<>>),
        cons |-> IF decline THEN <<"trend">> ELSE <<>>]

\* variant: the liquidity rule adds the volume and the sum is not clamped
analyze_item_adding_volume(price_data, trend, potential, mode) ==
    analyze_item_variant(price_data, trend, potential, mode,
                         LAMBDA v : v, FALSE, TRUE)

\* variant: the thresholds of the recommendation are inclusive
analyze_item_inclusive(price_data, trend, potential, mode) ==
    analyze_item_variant(price_data, trend, potential, mode,
                         LAMBDA v : 10, TRUE, FALSE)

analyze_item(price_data, trend, potential, mode) ==
    LET growth == IsGrowth(trend)
        volume == ParseVolume(VolumeOf(price_data))
        liquid == volume.ok /\ volume.value > 100
        high == potential > 70
        decline == IsDecline(trend)
        rating == Max2(0, Min2(100, 50 + (IF growth THEN 15 ELSE 0)
                                       + (IF liquid THEN 10 ELSE 0)
                                       + (IF high THEN 10 ELSE 0)
                                       - (IF decline THEN 15 ELSE 0)))
    IN [rating |-> rating,
        recommendation |->
            IF mode = "investor"
            THEN IF rating > 70 THEN "Buy"
                 ELSE IF rating > 50 THEN "Watch"
                 ELSE "Avoid"
            ELSE IF rating > 60 THEN "Buy"
                 ELSE IF rating > 45 THEN "ConditionalBuy"
                 ELSE "Skip",
        pros |-> (IF growth THEN <<"trend">> ELSE <<>>)
                 \o (IF liquid THEN <<"liquidity">> ELSE <<>>)
                 \o (IF high THEN <<"potential">> ELSE <<>>),
        cons |-> IF decline THEN <<"trend">> ELSE <<>>]

----------------------------------------------------------------------------
(* State *)

EmptyHistory == [x \in {} |-> <<>>]

Idle == [name |-> "idle", idx |-> 0]

\* out describes the step just taken: the item it was about, the clock, the
\* median price text it reported (empty when it reported none), whether it
\* called add_price_point and with which price, the item's series before
\* the step and the series its signals were computed from, and the signals
NoOut ==
    [op |-> "none", item |-> "", at |-> 0, quote |-> <<>>,
     recorded |-> FALSE, price |-> 0, before |-> <<>>, used |-> <<>>,
     raised |-> FALSE, trend |-> "", potential |-> -1,
     days |-> 0, prediction |-> "", confidence |-> -1,
     volume |-> <<>>, mode |-> "",
     rating |-> -1, recommendation |-> "", pros |-> <<>>, cons |-> <<>>,
     user |-> 0, idx |-> -1, portfolio |-> <<>>, quotes |-> <<>>, total |-> -1]

About(op, item_name) ==
    [NoOut EXCEPT !.op = op, !.item = item_name, !.at = now,
                  !.before = Series(price_history, item_name)]

NoneCompleted == [i \in ItemNames |-> 0]

\* user_data = {}
NoUsers == [u \in {} |-> <<>>]

Init ==
    /\ price_history = EmptyHistory
    /\ now = 0
    /\ handler = Idle
    /\ monitor = 0
    /\ completed = NoneCompleted
    /\ out = NoOut
    /\ user_data = NoUsers

\* the bookkeeping of one completed add_price_point call: calls are counted
\* as long as the clock is inside the first retention window
Counted(item_name) ==
    IF now < Retention THEN [completed EXCEPT ![item_name] = @ + 1] ELSE completed

----------------------------------------------------------------------------
(* The clock *)

Tick ==
    \E d \in {TickStep, Retention} :
        /\ now + d <= MaxTime
        /\ now' = now + d
        /\ completed' = IF now + d < Retention THEN completed ELSE NoneCompleted
        /\ out' = [NoOut EXCEPT !.op = "tick", !.at = now + d]
        /\ UNCHANGED <<price_history, handler, monitor, user_data>>

----------------------------------------------------------------------------
(* Calls of the PriceAnalyzer methods *)

add_price_point_call(item_name, price, limit) ==
    LET ph == add_price_point(price_history, item_name, price, now)
    IN /\ Len(ph[item_name]) <= limit
       /\ price_history' = ph
       /\ completed' = Counted(item_name)
       /\ out' = [About("add_price_point", item_name) EXCEPT
                      !.recorded = TRUE, !.price = price]
       /\ UNCHANGED <<now, handler, monitor, user_data>>

detect_trend_call(item_name) ==
    /\ out' = [About("detect_trend", item_name) EXCEPT
                   !.used = Series(price_history, item_name),
                   !.trend = detect_trend(price_history, item_name)]
    /\ price_history' = read_history(price_history, item_name)
    /\ UNCHANGED <<now, handler, monitor, completed, user_data>>

calculate_profit_potential_call(item_name) ==
    LET r == calculate_profit_potential(price_history, item_name)
    IN /\ out' = [About("calculate_profit_potential", item_name) EXCEPT
                      !.used = Series(price_history, item_name),
                      !.raised = r.raised,
                      !.potential = IF r.raised THEN -1 ELSE r.value]
       /\ price_history' = read_history(price_history, item_name)
       /\ UNCHANGED <<now, handler, monitor, completed, user_data>>

predict_price_call(item_name, days) ==
    LET r == predict_price(price_history, item_name, days)
    IN /\ out' = [About("predict_price", item_name) EXCEPT
                      !.used = Series(price_history, item_name),
                      !.raised = r.raised,
                      !.days = days,
                      !.prediction = r.prediction,
                      !.confidence = r.confidence]
       /\ price_history' = read_history(price_history, item_name)
       /\ UNCHANGED <<now, handler, monitor, completed, user_data>>

analyze_item_call(price_data, trend, potential, mode) ==
    LET analysis == analyze_item(price_data, trend, potential, mode)
    IN /\ out' = [NoOut EXCEPT !.op = "analyze_item", !.at = now,
                                !.quote = price_data.median_price,
                                !.volume = VolumeOf(price_data),
                                !.trend = trend,
                                !.potential = potential,
                                !.mode = mode,
                                !.rating = analysis.rating,
                                !.recommendation = analysis.recommendation,
                                !.pros = analysis.pros,
                                !.cons = analysis.cons]
       /\ UNCHANGED <<price_history, now, handler, monitor, completed, user_data>>

----------------------------------------------------------------------------
(* Handlers and jobs.  Updates are handled one at a time; the jobs of the  *)
(* job queue run in the same event loop and interleave with the handler    *)
(* in progress at its awaits.  A step runs from the arrival of the awaited *)
(* quote to the next await.                                                *)

show_top_items_start ==
    /\ handler = Idle
    /\ handler' = [name |-> "show_top_items", idx |-> 1]
    /\ out' = [NoOut EXCEPT !.op = "await", !.at = now]
    /\ UNCHANGED <<price_history, now, monitor, completed, user_data>>

show_top_items(price_data) ==
    /\ handler.name = "show_top_items"
    /\ LET items == FirstN(POPULAR_ITEMS, TopSlice)
           item == items[handler.idx]
           potential == calculate_profit_potential(price_history, item)
           parsed == ParsePrice(price_data.median_price)
           recorded == price_data.ok /\ ~potential.raised /\ parsed.ok
           ph == IF recorded
                 THEN add_price_point(price_history, item, parsed.value, now)
                 ELSE price_history
       IN /\ recorded => Len(ph[item]) <= MaxPoints
          /\ price_history' = ph
          /\ completed' = IF recorded THEN Counted(item) ELSE completed
          /\ handler' = IF (price_data.ok /\ potential.raised) \/ handler.idx >= Len(items)
                        THEN Idle
                        ELSE [handler EXCEPT !.idx = @ + 1]
          /\ out' = IF price_data.ok
                    THEN [About("show_top_items", item) EXCEPT
                              !.quote = price_data.median_price,
                              !.recorded = recorded,
                              !.price = IF recorded THEN parsed.value ELSE 0,
                              !.used = Series(price_history, item),
                              !.raised = potential.raised,
                              !.potential = IF potential.raised THEN -1
                                            ELSE potential.value]
                    ELSE About("show_top_items", item)
          /\ UNCHANGED <<now, monitor, user_data>>

monitor_prices_start ==
    /\ monitor = 0
    /\ monitor' = 1
    /\ out' = [NoOut EXCEPT !.op = "await", !.at = now]
    /\ UNCHANGED <<price_history, now, handler, completed, user_data>>

monitor_prices(price_data) ==
    /\ monitor > 0
    /\ LET items == FirstN(POPULAR_ITEMS, MonitorSlice)
           item == items[monitor]
           parsed == ParsePrice(price_data.median_price)
           recorded == price_data.ok /\ price_data.median_price # <<>> /\ parsed.ok
           ph == IF recorded
                 THEN add_price_point(price_history, item, parsed.value, now)
                 ELSE price_history
           trend == detect_trend(ph, item)
           potential == calculate_profit_potential(ph, item)
       IN /\ recorded => Len(ph[item]) <= MaxPoints
          /\ price_history' = ph
          /\ completed' = IF recorded THEN Counted(item) ELSE completed
          /\ monitor' = IF monitor >= Len(items) THEN 0 ELSE monitor + 1
          /\ out' = IF recorded
                    THEN [About("monitor_prices", item) EXCEPT
                              !.quote = price_data.median_price,
                              !.recorded = TRUE, !.price = parsed.value,
                              !.used = Series(ph, item),
                              !.raised = potential.raised,
                              !.trend = trend,
                              !.potential = IF potential.raised THEN -1
                                            ELSE potential.value]
                    ELSE About("monitor_prices", item)
          /\ UNCHANGED <<now, handler, user_data>>

show_item_details_start(item_idx) ==
    /\ handler = Idle
    /\ handler' = IF item_idx >= Len(POPULAR_ITEMS) THEN Idle
                  ELSE [name |-> "show_item_details", idx |-> item_idx + 1]
    /\ out' = [NoOut EXCEPT !.op = "await", !.at = now]
    /\ UNCHANGED <<price_history, now, monitor, completed, user_data>>

show_item_details(price_data) ==
    /\ handler.name = "show_item_details"
    /\ LET item == POPULAR_ITEMS[handler.idx]
           trend == detect_trend(price_history, item)
           potential == calculate_profit_potential(price_history, item)
           prediction == predict_price(price_history, item, DefaultDays)
       IN /\ out' = IF ~price_data.ok
                    THEN About("show_item_details", item)
                    ELSE IF potential.raised
                    THEN [About("show_item_details", item) EXCEPT
                              !.quote = price_data.median_price,
                              !.used = Series(price_history, item),
                              !.raised = TRUE, !.trend = trend]
                    ELSE [About("show_item_details", item) EXCEPT
                              !.quote = price_data.median_price,
                              !.used = Series(price_history, item),
                              !.trend = trend,
                              !.potential = potential.value,
                              !.prediction = prediction.prediction,
                              !.confidence = prediction.confidence]
          /\ price_history' = read_history(price_history, item)
          /\ handler' = Idle
          /\ UNCHANGED <<now, monitor, completed, user_data>>

show_analysis_start(item_idx) ==
    /\ handler = Idle
    /\ handler' = IF item_idx >= Len(POPULAR_ITEMS) THEN Idle
                  ELSE [name |-> "show_analysis", idx |-> item_idx + 1]
    /\ out' = [NoOut EXCEPT !.op = "await", !.at = now]
    /\ UNCHANGED <<price_history, now, monitor, completed, user_data>>

\* mode is user_data[user_id]['mode'], one of the values the mode buttons store
show_analysis(price_data, mode) ==
    /\ handler.name = "show_analysis"
    /\ LET item == POPULAR_ITEMS[handler.idx]
           trend == detect_trend(price_history, item)
           potential == calculate_profit_potential(price_history, item)
           analysis == analyze_item(price_data, trend, potential.value, mode)
       IN /\ out' = IF ~price_data.ok
                    THEN About("show_analysis", item)
                    ELSE IF potential.raised
                    THEN [About("show_analysis", item) EXCEPT
                              !.quote = price_data.median_price,
                              !.used = Series(price_history, item),
                              !.raised = TRUE, !.trend = trend]
                    ELSE [About("show_analysis", item) EXCEPT
                              !.quote = price_data.median_price,
                              !.used = Series(price_history, item),
                              !.trend = trend,
                              !.potential = potential.value,
                              !.volume = VolumeOf(price_data),
                              !.mode = mode,
                              !.rating = analysis.rating,
                              !.recommendation = analysis.recommendation,
                              !.pros = analysis.pros,
                              !.cons = analysis.cons]
          /\ price_history' = read_history(price_history, item)
          /\ handler' = Idle
          /\ UNCHANGED <<now, monitor, completed, user_data>>

----------------------------------------------------------------------------
(* Users: the handlers that read or write user_data.  A handler that reads *)
(* user_data[user_id] of a user without an entry raises KeyError, which    *)
(* button_callback catches.                                                *)

Users == {1, 2}

NewUser == [mode |-> "investor", portfolio |-> <<>>]

Registered(user_id) == user_id \in DOMAIN user_data

\* the report of a step of a user's handler
ByUser(op, user_id) ==
    [NoOut EXCEPT !.op = op, !.at = now, !.user = user_id,
                  !.portfolio = IF Registered(user_id)
                                THEN user_data[user_id].portfolio ELSE <<>>]

start(user_id) ==
    /\ handler = Idle
    /\ user_data' = IF Registered(user_id) THEN user_data
                    ELSE [u \in DOMAIN user_data \cup {user_id} |->
                              IF u = user_id THEN NewUser ELSE user_data[u]]
    /\ out' = ByUser("start", user_id)
    /\ UNCHANGED <<price_history, now, handler, monitor, completed>>

handle_mode_change(user_id, mode) ==
    /\ handler = Idle
    /\ user_data' = IF Registered(user_id)
                    THEN [user_data EXCEPT ![user_id].mode = mode]
                    ELSE user_data
    /\ out' = [ByUser("handle_mode_change", user_id) EXCEPT
                   !.mode = mode, !.raised = ~Registered(user_id)]
    /\ UNCHANGED <<price_history, now, handler, monitor, completed>>

\* variant: the index is appended whether present or not
AddIndex_always(portfolio, item_idx) == Append(portfolio, item_idx)

\* if item_idx not in portfolio: portfolio.append(item_idx)
AddIndex(portfolio, item_idx) ==
    IF \E k \in 1..Len(portfolio) : portfolio[k] = item_idx
    THEN portfolio
    ELSE Append(portfolio, item_idx)

add_to_portfolio(user_id, item_idx) ==
    /\ handler = Idle
    /\ user_data' = IF Registered(user_id)
                    THEN [user_data EXCEPT
                              ![user_id].portfolio = AddIndex(@, item_idx)]
                    ELSE user_data
    /\ out' = [ByUser("add_to_portfolio", user_id) EXCEPT
                   !.idx = item_idx, !.raised = ~Registered(user_id)]
    /\ UNCHANGED <<price_history, now, handler, monitor, completed>>

\* the position of the first index from position `from` on that names an
\* item (idx >= len(POPULAR_ITEMS) is skipped), 0 when there is none
NextValid(portfolio, from) ==
    LET valid == { k \in from..Len(portfolio) : portfolio[k] < Len(POPULAR_ITEMS) }
    IN IF valid = {} THEN 0 ELSE CHOOSE k \in valid : \A j \in valid : k <= j

\* a portfolio view up to its first await: nothing to show for an empty
\* portfolio, a total of 0 when no index names an item
PortfolioStart(op, user_id) ==
    LET portfolio == user_data'[user_id].portfolio
        first == NextValid(portfolio, 1)
    IN /\ handler' = IF portfolio = <<>> \/ first = 0 THEN Idle
                     ELSE [name |-> op, idx |-> first, user |-> user_id,
                           total |-> 0, quotes |-> <<>>]
       /\ out' = IF portfolio = <<>> THEN ByUser(op, user_id)
                 ELSE IF first = 0 THEN [ByUser(op, user_id) EXCEPT !.total = 0]
                 ELSE [NoOut EXCEPT !.op = "await", !.at = now]

\* a portfolio view from the arrival of a quote to the next await or to the
\* end: parsed is the outcome of float() on the median price
PortfolioStep(op, price_data, parsed) ==
    LET portfolio == user_data[handler.user].portfolio
        item == POPULAR_ITEMS[portfolio[handler.idx] + 1]
        total == handler.total
                     + (IF price_data.ok /\ parsed.ok THEN parsed.value ELSE 0)
        quotes == Append(handler.quotes, price_data.median_price)
        next == NextValid(portfolio, handler.idx + 1)
    IN /\ handler' = IF next = 0 THEN Idle
                     ELSE [handler EXCEPT !.idx = next, !.total = total,
                                          !.quotes = quotes]
       /\ out' = IF next = 0
                 THEN [ByUser(op, handler.user) EXCEPT
                           !.quotes = quotes, !.total = total]
                 ELSE [NoOut EXCEPT !.op = "await", !.at = now]
       /\ price_history' = IF price_data.ok
                           THEN read_history(price_history, item)
                           ELSE price_history
       /\ UNCHANGED <<now, monitor, completed, user_data>>

show_portfolio_start(user_id) ==
    /\ handler = Idle
    /\ UNCHANGED <<price_history, now, monitor, completed, user_data>>
    /\ IF Registered(user_id)
       THEN PortfolioStart("show_portfolio", user_id)
       ELSE /\ handler' = Idle
            /\ out' = [ByUser("show_portfolio", user_id) EXCEPT !.raised = TRUE]

\* float(price_str.replace(',', ''))
show_portfolio(price_data) ==
    /\ handler.name = "show_portfolio"
    /\ PortfolioStep("show_portfolio", price_data,
                     ParseFloat(RemoveChar(price_data.median_price, ",")))

portfolio_command_start(user_id) ==
    /\ handler = Idle
    /\ user_data' = IF Registered(user_id) THEN user_data
                    ELSE [u \in DOMAIN user_data \cup {user_id} |->
                              IF u = user_id THEN NewUser ELSE user_data[u]]
    /\ PortfolioStart("portfolio_command", user_id)
    /\ UNCHANGED <<price_history, now, monitor, completed>>

\* float(price_str.replace('$', '').replace(',', ''))
portfolio_command(price_data) ==
    /\ handler.name = "portfolio_command"
    /\ PortfolioStep("portfolio_command", price_data,
                     ParsePrice(price_data.median_price))

\* button_callback on 'analyze_<item_idx>' up to the await of show_analysis
button_callback_analyze(user_id, item_idx) ==
    /\ handler = Idle
    /\ handler' = IF item_idx >= Len(POPULAR_ITEMS) THEN Idle
                  ELSE [name |-> "show_analysis", idx |-> item_idx + 1,
                        user |-> user_id]
    /\ out' = [NoOut EXCEPT !.op = "await", !.at = now]
    /\ UNCHANGED <<price_history, now, monitor, completed, user_data>>

\* variant: the analysis is made in the mode a new user starts with
stored_mode_default(user_id) == NewUser.mode

\* user_data[user_id]['mode']
stored_mode(user_id) == user_data[user_id].mode

\* show_analysis for the user who pressed the button: without an entry in
\* user_data the read of the mode raises KeyError and nothing is shown
show_analysis_of_user(price_data) ==
    /\ handler.name = "show_analysis"
    /\ "user" \in DOMAIN handler
    /\ IF price_data.ok /\ ~Registered(handler.user)
       THEN /\ handler' = Idle
            /\ out' = [About("show_analysis", POPULAR_ITEMS[handler.idx]) EXCEPT
                           !.quote = price_data.median_price, !.raised = TRUE]
            /\ UNCHANGED <<price_history, now, monitor, completed, user_data>>
       ELSE show_analysis(price_data,
                          IF Registered(handler.user)
                          THEN stored_mode(handler.user) ELSE "")

----------------------------------------------------------------------------
(* Specifications *)

\* the bot: the clock, the handlers that feed or read the price history
\* and the monitor job
Next ==
    \/ Tick
    \/ show_top_items_start
    \/ \E price_data \in PriceQuotes : show_top_items(price_data)
    \/ monitor_prices_start
    \/ \E price_data \in PriceQuotes : monitor_prices(price_data)
    \/ \E item_idx \in 0..Len(POPULAR_ITEMS) : show_item_details_start(item_idx)
    \/ \E price_data \in PriceQuotes : show_item_details(price_data)
    \/ \E item_idx \in 0..Len(POPULAR_ITEMS) : show_analysis_start(item_idx)
    \/ \E price_data \in Quotes, mode \in Modes : show_analysis(price_data, mode)

Spec == Init /\ [][Next]_vars

\* the prices recorded by the trend specification: one of TrendPrices, or
\* the last recorded price plus or minus one
TrendPrices == {-1, 10}

TrendPricesAfter(series) ==
    TrendPrices \cup (IF series = <<>> THEN {}
                      ELSE { series[Len(series)].price + 1,
                             series[Len(series)].price - 1 })

\* the prices recorded by the totality specification
TotalPrices == {0, 10, Inf}

\* detect_trend over the series of up to MaxTrendLen points of one item
NextTrend ==
    \/ \E price \in TrendPricesAfter(Series(price_history, POPULAR_ITEMS[1])) :
           add_price_point_call(POPULAR_ITEMS[1], price, MaxTrendLen)
    \/ \E item_name \in ItemNames : detect_trend_call(item_name)

SpecTrend == Init /\ [][NextTrend]_vars

\* the three signals over every series of up to MaxLen points of one item
NextTotal ==
    \/ \E price \in TotalPrices :
           add_price_point_call(POPULAR_ITEMS[1], price, MaxLen)
    \/ detect_trend_call(POPULAR_ITEMS[1])
    \/ calculate_profit_potential_call(POPULAR_ITEMS[1])
    \/ predict_price_call(POPULAR_ITEMS[1], DefaultDays)

SpecTotal == Init /\ [][NextTotal]_vars

\* the prices recorded by the potential specification: every series stays
\* inside one of these ranges, and one inside a range with a zero price
\* stays within MaxLen points
PotentialRanges == { {50, 100}, {100, 150}, {0, 100}, {-10, 0} }

PotentialPricesAfter(series) ==
    UNION { R \in PotentialRanges :
                /\ \A k \in 1..Len(series) : series[k].price \in R
                /\ 0 \in R => Len(series) < MaxLen }

\* calculate_profit_potential over the series of up to MaxPotentialLen
\* points of one item, and for an item that has no series
NextPotential ==
    \/ \E price \in PotentialPricesAfter(Series(price_history, POPULAR_ITEMS[1])) :
           add_price_point_call(POPULAR_ITEMS[1], price, MaxPotentialLen)
    \/ \E item_name \in ItemNames : calculate_profit_potential_call(item_name)

SpecPotential == Init /\ [][NextPotential]_vars

\* the series recorded by the prediction specification: a first price of
\* PredictStarts, then steps of PredictSteps, any of them after each of the
\* first MaxFree points and the same step from then on, never below zero
PredictStarts == {8, 20}

PredictSteps == {-1, 0, 1}

PredictDays == {1, DefaultDays}

PredictPricesAfter(series) ==
    IF series = <<>> THEN PredictStarts
    ELSE LET last == series[Len(series)].price
             steps == IF Len(series) = 1 \/ Len(series) <= MaxFree
                      THEN PredictSteps
                      ELSE { last - series[Len(series) - 1].price }
         IN { last + d : d \in steps } \cap Nat

\* predict_price over the series of up to MaxPredictLen points of one item,
\* and for an item that has no series
NextPredict ==
    \/ \E price \in PredictPricesAfter(Series(price_history, POPULAR_ITEMS[1])) :
           add_price_point_call(POPULAR_ITEMS[1], price, MaxPredictLen)
    \/ \E item_name \in ItemNames, days \in PredictDays :
           predict_price_call(item_name, days)

SpecPredict == Init /\ [][NextPredict]_vars

\* the inputs of the advisor specification: a quote without a volume, or
\* one with an unparseable, a comma-formatted or a plain integer volume;
\* the six trend labels; potentials around the threshold; the modes
AdvisorVolumes ==
    { <<"N", "/", "A">>, <<"1", ",", "2", "3", "4">>, <<"1", "0", "0">>,
      <<"1", "0", "1">>, <<"-", "5">> }

AdvisorQuotes ==
    { [ok |-> TRUE, median_price |-> <<"$", "1", "0">>] }
        \cup { Quote(<<"$", "1", "0">>, v) : v \in AdvisorVolumes }

AdvisorPotentials == {0, 50, 70, 71, 100}

\* analyze_item over every combination of its inputs
NextAdvisor ==
    \E price_data \in AdvisorQuotes, trend \in TrendLabels,
       potential \in AdvisorPotentials, mode \in Modes :
        analyze_item_call(price_data, trend, potential, mode)

SpecAdvisor == Init /\ [][NextAdvisor]_vars

\* the median prices of the users specification: with a currency sign,
\* without one, and unparseable
PortfolioTexts == { <<"$", "1", "0">>, <<"2", "0">>, <<"N", "/", "A">> }

PortfolioQuotes ==
    {NoQuote} \cup { Quote(s, <<"N", "/", "A">>) : s \in PortfolioTexts }

\* the users' handlers, one update at a time
NextUsers ==
    \/ \E user_id \in Users : start(user_id)
    \/ \E user_id \in Users, mode \in Modes : handle_mode_change(user_id, mode)
    \/ \E user_id \in Users, item_idx \in 0..Len(POPULAR_ITEMS) :
           add_to_portfolio(user_id, item_idx)
    \/ \E user_id \in Users : show_portfolio_start(user_id)
    \/ \E price_data \in PortfolioQuotes : show_portfolio(price_data)
    \/ \E user_id \in Users : portfolio_command_start(user_id)
    \/ \E price_data \in PortfolioQuotes : portfolio_command(price_data)
    \/ \E user_id \in Users, item_idx \in 0..Len(POPULAR_ITEMS) :
           button_callback_analyze(user_id, item_idx)
    \/ \E price_data \in Quotes : show_analysis_of_user(price_data)

SpecUsers == Init /\ [][NextUsers]_vars

----------------------------------------------------------------------------
(* Properties *)

Readers == {"detect_trend", "calculate_profit_potential", "predict_price"}

Reporters == {"show_top_items", "monitor_prices", "show_item_details"}

\* C1: after every completed add_price_point(item, price) no point of the
\* item's series is older than 30 days relative to that insertion
C1_RetentionAfterRecord ==
    out.recorded =>
        \A k \in 1..Len(price_history[out.item]) :
            ~(price_history[out.item][k].timestamp < out.at - Retention)

\* a call that found a point older than 30 days in the series
C1_Witness ==
    /\ out.recorded
    /\ \E k \in 1..Len(out.before) : out.before[k].timestamp < out.at - Retention

\* C2 as stated: add_price_point leaves the item's series equal to the
\* previous points that are not older than now - 30 days, in their order,
\* followed by the new point
C2_KeepsNotOlder ==
    out.recorded =>
        price_history[out.item] =
            Append(SelectSeq(out.before,
                             LAMBDA p : ~(p.timestamp < out.at - Retention)),
                   Point(out.price, out.at))

\* C2 amended: add_price_point leaves the item's series equal to the
\* previous points that are strictly newer than now - 30 days, in their
\* order, followed by the new point; a point exactly 30 days old is purged
C2_KeepsNewer ==
    out.recorded =>
        price_history[out.item] =
            Append(SelectSeq(out.before,
                             LAMBDA p : p.timestamp > out.at - Retention),
                   Point(out.price, out.at))

\* a call that found one point exactly 30 days old and a newer one
C2_Witness ==
    /\ out.recorded
    /\ \E k \in 1..Len(out.before) : out.before[k].timestamp = out.at - Retention
    /\ \E k \in 1..Len(out.before) : out.before[k].timestamp > out.at - Retention

\* C3: add_price_point with a negative or non-finite price changes nothing
\* (no point appended, no key created), so every stored price is >= 0
C3_InvalidPriceIsNoOp ==
    /\ (out.recorded /\ (out.price < 0 \/ out.price = Inf)) =>
           /\ Series(price_history, out.item) = out.before
           /\ (out.item \in DOMAIN price_history) = (out.before # <<>>)
    /\ \A i \in DOMAIN price_history :
           \A k \in 1..Len(price_history[i]) : price_history[i][k].price >= 0

\* C4: add_price_point on one item leaves every other item as it was: in
\* the map or not, with the same points in the same order
C4_OnlyNamedItem ==
    [][out'.recorded =>
          \A y \in ItemNames \ {out'.item} :
              /\ (y \in DOMAIN price_history') = (y \in DOMAIN price_history)
              /\ Series(price_history', y) = Series(price_history, y)]_vars

\* a call on one item while another item holds points that have expired
C4_Witness ==
    /\ out.recorded
    /\ \E y \in DOMAIN price_history \ {out.item} :
           \E k \in 1..Len(price_history[y]) :
               price_history[y][k].timestamp <= out.at - Retention

\* C5: a step that does not call add_price_point leaves the whole price
\* history unchanged: no key created, no point added or removed
C5_OnlyRecordMutates ==
    [][~out'.recorded => price_history' = price_history]_vars

\* signals and an analysis reported for an item that has no key, and none made
C5_Witness ==
    /\ out.op = "show_analysis"
    /\ out.rating >= 0
    /\ out.trend = InsufficientData
    /\ out.item \notin DOMAIN price_history

\* C6: detect_trend, calculate_profit_potential and predict_price return a
\* value of their result type for every stored series and never raise
C6_NeverRaises ==
    /\ out.op \in Readers => ~out.raised
    /\ out.op = "detect_trend" => out.trend \in TrendLabels
    /\ out.op = "calculate_profit_potential" => out.potential \in 0..100
    /\ out.op = "predict_price" =>
           /\ out.prediction \in {"bullish", "bearish", "neutral"}
           /\ out.confidence \in 0..100

\* C7: whatever the interleaving of the handlers and the job at their
\* awaits, every series a task can observe is non-empty and fully purged
\* with respect to its last point, and while nothing can have expired it
\* holds exactly one point per completed add_price_point call
C7_AtomicMutation ==
    \A i \in ItemNames :
        /\ i \in DOMAIN price_history =>
               /\ price_history[i] # <<>>
               /\ \A k \in 1..Len(price_history[i]) :
                      price_history[i][k].timestamp >
                          price_history[i][Len(price_history[i])].timestamp - Retention
        /\ now < Retention => Len(Series(price_history, i)) = completed[i]

\* show_top_items and monitor_prices both in their loops, each having
\* recorded the first item
C7_Witness ==
    /\ handler.name = "show_top_items"
    /\ handler.idx = 2
    /\ monitor = 2
    /\ completed[POPULAR_ITEMS[1]] = 2

\* C8: the signals a caller reports for a quote are computed from a series
\* whose last point is that quote
C8_QuoteRecordedFirst ==
    (out.op \in Reporters /\ ParsePrice(out.quote).ok) =>
        /\ out.used # <<>>
        /\ out.used[Len(out.used)] = Point(ParsePrice(out.quote).value, out.at)

\* C9: detect_trend answers InsufficientData for every item with fewer than
\* 3 stored points, whatever the prices
C9_FewPointsInsufficient ==
    (out.op = "detect_trend" /\ Len(out.used) < 3) => out.trend = InsufficientData

\* two rising points, which the classification would call a growth
C9_Witness ==
    /\ out.op = "detect_trend"
    /\ Len(out.used) = 2
    /\ out.used[1].price < out.used[2].price
    /\ out.trend = InsufficientData

\* C10: with at least 3 points whose last min(7, length) prices rise
\* strictly, detect_trend answers StableGrowth, also when the last price is
\* more than 10% above the first of the window
C10_RisingIsStableGrowth ==
    (/\ out.op = "detect_trend"
     /\ Len(out.used) >= 3
     /\ LET w == PricesOf(LastN(out.used, 7))
        IN \A k \in 1..(Len(w) - 1) : w[k] < w[k + 1])
    => out.trend = StableGrowth

\* eight points, the first one not below the second, the last seven rising
\* by more than 10% in total
C10_Witness ==
    /\ out.op = "detect_trend"
    /\ Len(out.used) = 8
    /\ out.used[1].price >= out.used[2].price
    /\ LET w == PricesOf(LastN(out.used, 7))
       IN /\ \A k \in 1..(Len(w) - 1) : w[k] < w[k + 1]
          /\ 10 * w[7] > 11 * w[1]
    /\ out.trend = StableGrowth

\* C11: with at least 3 points whose last min(7, length) prices fall
\* strictly, detect_trend answers Decline, also when the last price is more
\* than 10% below the first of the window
C11_FallingIsDecline ==
    (/\ out.op = "detect_trend"
     /\ Len(out.used) >= 3
     /\ LET w == PricesOf(LastN(out.used, 7))
        IN \A k \in 1..(Len(w) - 1) : w[k] > w[k + 1])
    => out.trend = Decline

\* eight points, the first one not above the second, the last seven falling
\* by more than 10% in total
C11_Witness ==
    /\ out.op = "detect_trend"
    /\ Len(out.used) = 8
    /\ out.used[1].price <= out.used[2].price
    /\ LET w == PricesOf(LastN(out.used, 7))
       IN /\ \A k \in 1..(Len(w) - 1) : w[k] > w[k + 1]
          /\ 10 * w[7] < 9 * w[1]
    /\ out.trend = Decline

\* C12: with at least 3 points whose 7-point window neither rises strictly
\* nor falls strictly, detect_trend answers StrongGrowth when last > 1.10 *
\* first, otherwise StrongDecline when last < 0.90 * first, otherwise Stable
\* (first and last of the window, both comparisons strict); and every answer
\* of detect_trend is one of the six labels
C12_ThresholdsOtherwise ==
    out.op = "detect_trend" =>
        /\ out.trend \in TrendLabels
        /\ LET w == PricesOf(LastN(out.used, 7))
           IN (/\ Len(out.used) >= 3
               /\ ~(\A k \in 1..(Len(w) - 1) : w[k] < w[k + 1])
               /\ ~(\A k \in 1..(Len(w) - 1) : w[k] > w[k + 1]))
              => out.trend = IF 10 * w[Len(w)] > 11 * w[1] THEN StrongGrowth
                             ELSE IF 10 * w[Len(w)] < 9 * w[1] THEN StrongDecline
                             ELSE Stable

\* a window that is not monotonic and ends exactly 10% above its first
\* price, read as Stable
C12_Witness ==
    /\ out.op = "detect_trend"
    /\ Len(out.used) >= 3
    /\ LET w == PricesOf(LastN(out.used, 7))
       IN /\ w[1] > 0
          /\ 10 * w[Len(w)] = 11 * w[1]
          /\ ~(\A k \in 1..(Len(w) - 1) : w[k] < w[k + 1])
    /\ out.trend = Stable

\* C13: calculate_profit_potential returns exactly 50 for every item with
\* fewer than 5 stored points, an item without a series included, whatever
\* the prices
C13_FewPointsDefault ==
    (out.op = "calculate_profit_potential" /\ Len(out.used) < 5) =>
        (~out.raised /\ out.potential = 50)

\* four points ending in a rise, which the formula would score 100
C13_Witness ==
    /\ out.op = "calculate_profit_potential"
    /\ Len(out.used) = 4
    /\ out.used[1].price = 100
    /\ out.used[4].price = 150
    /\ out.potential = 50

C15_PotentialInRange ==
    out.op = "calculate_profit_potential" =>
        (~out.raised /\ out.potential \in 0..100)

\* C16: when the minimum of the 14-point window is 0, or the window's first
\* price is 0, calculate_profit_potential returns the default 50
C16_ZeroBaseDefault ==
    (out.op = "calculate_profit_potential" /\ Len(out.used) >= 5) =>
        LET w == PricesOf(LastN(out.used, 14))
        IN (SeqMin(w) = 0 \/ w[1] = 0) => (~out.raised /\ out.potential = 50)

\* a window whose first price is 0 and whose minimum is not
C16_Witness ==
    /\ out.op = "calculate_profit_potential"
    /\ Len(out.used) >= 5
    /\ LET w == PricesOf(LastN(out.used, 14))
       IN w[1] = 0 /\ SeqMin(w) < 0
    /\ out.potential = 50

\* C17: predict_price answers neutral with confidence 0 for every item with
\* fewer than 10 stored points, an item without a series included, whatever
\* the prices and the horizon
C17_FewPointsNeutral ==
    (out.op = "predict_price" /\ Len(out.used) < 10) =>
        (~out.raised /\ out.prediction = "neutral" /\ out.confidence = 0)

\* nine points rising by one each, a week ahead
C17_Witness ==
    /\ out.op = "predict_price"
    /\ Len(out.used) = 9
    /\ \A k \in 1..8 : out.used[k + 1].price = out.used[k].price + 1
    /\ out.days = 7
    /\ out.prediction = "neutral"
    /\ out.confidence = 0

\* C18: on a window p_i = a + b * i of 10 or more points the slope of
\* predict_price is the least-squares slope b, and the answer is the one
\* that the projected change b * days gives
C18_SlopeIsLeastSquares ==
    (out.op = "predict_price" /\ Len(out.used) >= 10) =>
        LET w == PricesOf(LastN(out.used, 30))
            n == Len(w)
            b == w[2] - w[1]
            change == 100 * b * out.days
        IN ((\A k \in 1..(n - 1) : w[k + 1] - w[k] = b) /\ w[n] > 0) =>
               /\ 2 * SlopeNum(w) = b * n * SlopeDen(w)
               /\ out.prediction = IF change > 5 * w[n] THEN "bullish"
                                   ELSE IF change < -5 * w[n] THEN "bearish"
                                   ELSE "neutral"
               /\ out.confidence = IF change > 5 * w[n] \/ change < -5 * w[n]
                                   THEN Min2(85, 60 + (Abs(change) \div w[n]))
                                   ELSE 70

\* C19: with at least 10 points and a last price of 0 predict_price answers
\* neutral with confidence 0 and does not raise
C19_ZeroLastPriceNeutral ==
    (/\ out.op = "predict_price"
     /\ Len(out.used) >= 10
     /\ out.used[Len(out.used)].price = 0)
    => (~out.raised /\ out.prediction = "neutral" /\ out.confidence = 0)

\* a series that fell to 0, a week ahead
C19_Witness ==
    /\ out.op = "predict_price"
    /\ Len(out.used) >= 10
    /\ out.used[1].price > 0
    /\ out.used[Len(out.used)].price = 0
    /\ out.days = 7
    /\ out.prediction = "neutral"
    /\ out.confidence = 0

C22_RatingInRange ==
    out.op = "analyze_item" => out.rating \in 0..100

\* all three positive rules applied, on a comma-formatted volume
C22_Witness ==
    /\ out.op = "analyze_item"
    /\ out.volume = <<"1", ",", "2", "3", "4">>
    /\ out.pros = <<"trend", "liquidity", "potential">>
    /\ out.rating = 85

\* C23: the rating is 50 + 15 for a growth label + 10 for a volume that
\* parses, commas removed, to an integer > 100 + 10 for a potential > 70
\* - 15 for a decline label, clamped to 0..100; each applied rule adds one
\* pro (in the order trend, liquidity, potential) or one con, and nothing
\* else does
C23_RatingRubric ==
    out.op = "analyze_item" =>
        LET growth == out.trend \in {StableGrowth, StrongGrowth}
            decline == out.trend \in {Decline, StrongDecline}
            volume == ParseInt(RemoveChar(out.volume, ","))
            liquid == volume.ok /\ volume.value > 100
            high == out.potential > 70
            sum == 50 + (IF growth THEN 15 ELSE 0) + (IF liquid THEN 10 ELSE 0)
                      + (IF high THEN 10 ELSE 0) - (IF decline THEN 15 ELSE 0)
        IN /\ out.rating = (IF sum < 0 THEN 0 ELSE IF sum > 100 THEN 100 ELSE sum)
           /\ out.pros = (IF growth THEN <<"trend">> ELSE <<>>)
                           \o (IF liquid THEN <<"liquidity">> ELSE <<>>)
                           \o (IF high THEN <<"potential">> ELSE <<>>)
           /\ out.cons = (IF decline THEN <<"trend">> ELSE <<>>)

\* a comma-formatted volume above 100 with a potential of exactly 70
C23_Witness ==
    /\ out.op = "analyze_item"
    /\ out.volume = <<"1", ",", "2", "3", "4">>
    /\ out.potential = 70
    /\ out.trend = Stable
    /\ out.rating = 60
    /\ out.pros = <<"liquidity">>
    /\ out.cons = <<>>

\* C24: in investor mode a rating > 70 gives Buy, 51..70 Watch, <= 50 Avoid;
\* in trader mode a rating > 60 gives Buy, 46..60 ConditionalBuy, <= 45
\* Skip; nothing but the mode and the rating decides
C24_Recommendation ==
    (out.op = "analyze_item" /\ out.mode \in {"investor", "trader"}) =>
        out.recommendation =
            IF out.mode = "investor"
            THEN (IF out.rating > 70 THEN "Buy"
                  ELSE IF out.rating > 50 THEN "Watch" ELSE "Avoid")
            ELSE (IF out.rating > 60 THEN "Buy"
                  ELSE IF out.rating > 45 THEN "ConditionalBuy" ELSE "Skip")

\* a rating of 65 from a growth trend alone, in trader mode: Buy
C24_Witness ==
    /\ out.op = "analyze_item"
    /\ out.mode = "trader"
    /\ out.rating = 65
    /\ out.pros = <<"trend">>
    /\ out.recommendation = "Buy"

\* C27: for each of the six labels the growth rule and the decline rule
\* never both apply, the insufficient-data and stable labels trigger
\* neither, the sum of the applied rules is one of 35, 45, 50, 55, 60, 65,
\* 70, 75, 85 and the clamp leaves it as it is
C27_RulesExclusive ==
    out.op = "analyze_item" =>
        LET grown == \E k \in 1..Len(out.pros) : out.pros[k] = "trend"
            declined == out.cons # <<>>
            sum == 50 + (IF grown THEN 15 ELSE 0) + 10 * (Len(out.pros) - (IF grown THEN 1 ELSE 0))
                      - (IF declined THEN 15 ELSE 0)
        IN /\ ~(grown /\ declined)
           /\ out.trend \in {InsufficientData, Stable} => (~grown /\ ~declined)
           /\ sum \in {35, 45, 50, 55, 60, 65, 70, 75, 85}
           /\ out.rating = sum

\* a decline label with the two other rules applied: 55
C27_Witness ==
    /\ out.op = "analyze_item"
    /\ out.trend = StrongDecline
    /\ out.pros = <<"liquidity", "potential">>
    /\ out.cons = <<"trend">>
    /\ out.rating = 55

\* C25: with at least 3 points the label of detect_trend is decided by the
\* last min(7, length) points: it is the label of the series made of those
\* points alone, whatever the older points are
C25_OnlyLastSeven ==
    (out.op = "detect_trend" /\ Len(out.used) >= 3) =>
        LET n == Len(out.used)
            m == IF n < 7 THEN n ELSE 7
            tail == SubSeq(out.used, n - m + 1, n)
        IN out.trend = detect_trend((out.item :> tail), out.item)

\* eight points whose oldest one would change the label if it counted
C25_Witness ==
    /\ out.op = "detect_trend"
    /\ Len(out.used) = 8
    /\ Classify(PricesOf(out.used)) # Classify(PricesOf(SubSeq(out.used, 2, 8)))
    /\ out.trend = Classify(PricesOf(SubSeq(out.used, 2, 8)))

\* C28: the handlers that only read an item purge nothing: after
\* show_item_details or show_analysis the item's series is the one found,
\* points older than 30 days included, and the signals reported are
\* computed from that series
C28_ReadersKeepExpired ==
    (out.op \in {"show_item_details", "show_analysis"} /\ out.quote # <<>>) =>
        /\ Series(price_history, out.item) = out.before
        /\ out.used = out.before
        /\ out.trend = detect_trend((out.item :> out.before), out.item)

\* a trend reported from three points that are all older than 30 days
C28_Witness ==
    /\ out.op = "show_item_details"
    /\ Len(out.before) >= 3
    /\ \A k \in 1..Len(out.before) : out.before[k].timestamp < out.at - Retention
    /\ out.trend = Stable
    /\ price_history[out.item] = out.before


\* the recommendation the trader thresholds give a rating
TraderRecommendation(rating) ==
    IF rating > 60 THEN "Buy"
    ELSE IF rating > 45 THEN "ConditionalBuy" ELSE "Skip"

\* C26: the analysis shown to a user is made in the mode stored for that
\* user, which a mode button sets to 'investor', 'trader' or 'news'; every
\* mode other than 'investor', 'news' in particular, is recommended by the
\* trader thresholds, and the recommendation is never empty.
C26_StoredMode ==
    [][ /\ (out'.op = "handle_mode_change" /\ ~out'.raised)
            => /\ out'.mode \in Modes
               /\ user_data'[out'.user].mode = out'.mode
        /\ (handler.name = "show_analysis" /\ out'.op = "show_analysis"
                /\ out'.rating >= 0)
            => /\ Registered(handler.user)
               /\ out'.mode = user_data[handler.user].mode
               /\ out'.mode \in Modes
               /\ out'.recommendation # ""
               /\ out'.mode # "investor"
                      => out'.recommendation = TraderRecommendation(out'.rating)
      ]_vars

\* an analysis shown in mode 'news': rating 50 is a conditional buy, which
\* the investor thresholds would call avoid
C26_Witness ==
    /\ out.op = "show_analysis"
    /\ out.mode = "news"
    /\ out.rating = 50
    /\ out.recommendation = "ConditionalBuy"
    /\ \E u \in DOMAIN user_data : user_data[u].mode = "news"

RECURSIVE QuotedTotal(_)
\* the sum of the median prices that are numbers once the currency sign and
\* the thousands commas are removed
QuotedTotal(quotes) ==
    IF quotes = <<>> THEN 0
    ELSE (IF ParsePrice(Head(quotes)).ok THEN ParsePrice(Head(quotes)).value ELSE 0)
         + QuotedTotal(Tail(quotes))

\* C29: the portfolio button and the /portfolio command report the same
\* total for the same portfolio and quotes: the sum of the numeric values of
\* the parseable median prices, currency sign and thousands commas removed.
C29_SameTotal ==
    (out.op \in {"show_portfolio", "portfolio_command"} /\ out.total >= 0)
        => out.total = QuotedTotal(out.quotes)

\* no element of the sequence occurs twice
NoDuplicates(portfolio) ==
    \A j, k \in 1..Len(portfolio) : portfolio[j] = portfolio[k] => j = k

\* C30: no portfolio ever holds an index twice; adding an index that is
\* present leaves the portfolio as it is, adding a new one appends it at the
\* end; no step changes the portfolio of a user other than the acting one.
C30_PortfolioSet ==
    [][ /\ \A u \in DOMAIN user_data' : NoDuplicates(user_data'[u].portfolio)
        /\ \A u \in DOMAIN user_data :
               u # out'.user => /\ u \in DOMAIN user_data'
                                /\ user_data'[u].portfolio = user_data[u].portfolio
        /\ (out'.op = "add_to_portfolio" /\ ~out'.raised)
            => LET before == user_data[out'.user].portfolio
                   after == user_data'[out'.user].portfolio
               IN IF \E k \in 1..Len(before) : before[k] = out'.idx
                  THEN after = before
                  ELSE after = before \o <<out'.idx>>
      ]_vars

\* a user with two indices adds the first of them again while another user
\* holds a portfolio too
C30_Witness ==
    /\ out.op = "add_to_portfolio"
    /\ ~out.raised
    /\ Len(out.portfolio) = 2
    /\ out.idx = out.portfolio[1]
    /\ user_data[out.user].portfolio = out.portfolio
    /\ \E u \in DOMAIN user_data : u # out.user /\ user_data[u].portfolio # <<>>

====
